---- MODULE Spec2Model ----
(***************************************************************************)
(* Drone detection from RF measurement tables (detectar_dron_v2.py).       *)
(*                                                                         *)
(* The script runs top to bottom: it parses its arguments, reads the       *)
(* baseline and the candidate CSV, resolves the measurement columns,       *)
(* derives mean + k*sigma thresholds from the baseline, builds the band    *)
(* mask and the instantaneous mask over the candidate rows, applies the    *)
(* consecutive-sample hysteresis and prints the verdict.                   *)
(*                                                                         *)
(* Text is a sequence of one-character strings.  A cell of a table is a    *)
(* float: <<>> is NaN (a missing value), <<n>> is the number n.  Python's  *)
(* None is <<>> for a column name and for an optional argument.  The       *)
(* statistics are kept exact: a mean is a fraction, a standard deviation   *)
(* is the square root of a fraction, and a comparison against              *)
(* mu + k*sigma is decided by integer arithmetic on those fractions.       *)
(***************************************************************************)
EXTENDS Integers, Sequences, FiniteSets, TLC

VARIABLES
    pc,             \* the section of the script about to run
    args,           \* argparse namespace: ksigma, freq_min, freq_max, n_consec
    df_base,        \* baseline table
    df_data,        \* candidate table
    pfd_base, pfd_data, pow_base, pow_data, freq_data,   \* resolved column names
    thr_pfd, thr_power,                                  \* thresholds
    band_mask, instant_mask,                             \* one boolean per candidate row
    dron_detectado, \* the verdict: <<>> while unbound, <<b>> once assigned
    opened,         \* the files read so far, in order
    stdout,         \* the lines printed so far
    exit_code,      \* <<>> while running, <<n>> after sys.exit(n) or the normal end
    exists          \* the file system: which of the two paths exist

vars == <<pc, args, df_base, df_data, pfd_base, pfd_data, pow_base, pow_data,
          freq_data, thr_pfd, thr_power, band_mask, instant_mask,
          dron_detectado, opened, stdout, exit_code, exists>>

(***************************************************************************)
(* Bounds of the model.                                                    *)
(***************************************************************************)
MaxBaseRows == 2
MaxDataRows == 1
MaxNConsec == 7
MaxMaskLen == 6

None == <<>>
NaN == <<>>
Unbound == <<>>

(***************************************************************************)
(* Text: str.lower() and the substring test `a in b`.                      *)
(***************************************************************************)
\* str.lower() on one character
LowerChar(c) ==
    CASE c = "A" -> "a" []
         c = "B" -> "b" []
         c = "C" -> "c" []
         c = "D" -> "d" []
         c = "E" -> "e" []
         c = "F" -> "f" []
         c = "G" -> "g" []
         c = "H" -> "h" []
         c = "I" -> "i" []
         c = "J" -> "j" []
         c = "K" -> "k" []
         c = "L" -> "l" []
         c = "M" -> "m" []
         c = "N" -> "n" []
         c = "O" -> "o" []
         c = "P" -> "p" []
         c = "Q" -> "q" []
         c = "R" -> "r" []
         c = "S" -> "s" []
         c = "T" -> "t" []
         c = "U" -> "u" []
         c = "V" -> "v" []
         c = "W" -> "w" []
         c = "X" -> "x" []
         c = "Y" -> "y" []
         c = "Z" -> "z" []
         OTHER -> c

lower(s) == [i \in 1..Len(s) |-> LowerChar(s[i])]

\* Python's `a in b` on strings
Contains(a, b) ==
    \E i \in 0..(Len(b) - Len(a)) :
        \A j \in 1..Len(a) : b[i + j] = a[j]

\* the three keywords the script searches for
KeyPFD == <<"P","o","w","e","r"," ","F","l","u","x"," ","D","e","n","s","i","t","y">>
KeyPower == <<"T","o","t","a","l"," ","S","p","e","c","t","r","u","m"," ","P","o","w","e","r">>
KeyFreq == <<"F","r","e","q","u","e","n","c","y">>

RECURSIVE buscar_col_from(_, _, _)
buscar_col_from(columns, key, i) ==
    IF i > Len(columns) THEN None
    ELSE IF Contains(lower(key), lower(columns[i])) THEN columns[i]
    ELSE buscar_col_from(columns, key, i + 1)

\* Deviation: the last matching column instead of the first.
RECURSIVE buscar_col_back(_, _, _)
buscar_col_back(columns, key, i) ==
    IF i < 1 THEN None
    ELSE IF Contains(lower(key), lower(columns[i])) THEN columns[i]
    ELSE buscar_col_back(columns, key, i - 1)
buscar_col_last(df, key) == buscar_col_back(df.columns, key, Len(df.columns))

\* first column, in declared order, whose name contains key, case-insensitively
buscar_col(df, key) == buscar_col_from(df.columns, key, 1)

(***************************************************************************)
(* The input files.  A file is missing or holds a table: a header (the     *)
(* declared column names, in order) and rows of cells aligned with it.     *)
(***************************************************************************)
ColPFD == <<"P","o","w","e","r"," ","F","l","u","x"," ","D","e","n","s","i","t","y">>
ColPFDPeak == <<"P","E","A","K"," ","P","O","W","E","R"," ","F","L","U","X"," ","D","E","N","S","I","T","Y">>
ColPower == <<"t","o","t","a","l"," ","s","p","e","c","t","r","u","m"," ","p","o","w","e","r">>
ColFreq == <<"F","r","e","q","u","e","n","c","y">>
ColFlux == <<"F","l","u","x">>

ColumnNames == {ColPFD, ColPFDPeak, ColPower, ColFreq, ColFlux}

BaseHeaders == { <<ColPFD, ColPower>>, <<ColFlux, ColPFDPeak>>, <<ColFlux>> }
DataHeaders == { <<ColPFD, ColPower, ColFreq>>, <<ColPFDPeak, ColPFD>>, <<ColPower>> }

\* the cells a column of the baseline file may hold
BaseCells == [c \in ColumnNames |->
    IF c = ColPFD THEN { <<2>> }
    ELSE IF c = ColPFDPeak THEN { <<0>>, <<2>> }
    ELSE IF c = ColPower THEN { <<2>>, NaN }
    ELSE { <<0>> }]

\* the cells a column of the candidate file may hold
DataCells == [c \in ColumnNames |->
    IF c = ColPFD THEN { <<2>>, <<3>>, NaN }
    ELSE IF c = ColPFDPeak THEN { <<2>>, <<3>> }
    ELSE IF c = ColPower THEN { <<2>>, <<3>> }
    ELSE IF c = ColFreq THEN { <<1>>, <<2>>, <<3>> }
    ELSE { <<0>> }]

RECURSIVE RowsOf(_, _)
RowsOf(header, cells) ==
    IF header = <<>> THEN { <<>> }
    ELSE { <<v>> \o r : v \in cells[Head(header)], r \in RowsOf(Tail(header), cells) }

SeqsUpTo(S, n) == UNION { [1..m -> S] : m \in 0..n }

TablesOf(headers, cells, n) ==
    UNION { { [columns |-> h, rows |-> rs] : rs \in SeqsUpTo(RowsOf(h, cells), n) }
            : h \in headers }

Missing == [exists |-> FALSE, table |-> [columns |-> <<>>, rows |-> <<>>]]
File(t) == [exists |-> TRUE, table |-> t]

BaselineFiles == {Missing} \cup { File(t) : t \in TablesOf(BaseHeaders, BaseCells, MaxBaseRows) }
DataFiles == {Missing} \cup { File(t) : t \in TablesOf(DataHeaders, DataCells, MaxDataRows) }

KSigmaValues == {0, 1}
FreqBounds == {None, <<2>>}
NConsecValues == {1, 2}

ArgsValues == [ksigma : KSigmaValues, freq_min : FreqBounds, freq_max : FreqBounds,
               n_consec : NConsecValues]

\* df[col]: the cells of the named column, one per row
Column(df, col) ==
    LET i == CHOOSE j \in 1..Len(df.columns) : df.columns[j] = col
    IN  [r \in 1..Len(df.rows) |-> df.rows[r][i]]

(***************************************************************************)
(* Statistics (pandas, skipna): mean() and std() with the N-1 denominator. *)
(* A fraction is [nan, num, den] with den > 0.  std() is returned as its   *)
(* square, the variance (n*Q - S*S) / (n*(n-1)).                           *)
(***************************************************************************)
NaNFrac == [nan |-> TRUE, num |-> 0, den |-> 1]

RECURSIVE SumSeq(_)
SumSeq(s) == IF s = <<>> THEN 0 ELSE Head(s) + SumSeq(Tail(s))

\* the numbers of a column, missing cells dropped
Valid(col) == SelectSeq(col, LAMBDA v : v # NaN)
Numbers(col) == [i \in 1..Len(Valid(col)) |-> Valid(col)[i][1]]

mean(col) ==
    LET xs == Numbers(col)
    IN  IF Len(xs) = 0 THEN NaNFrac
        ELSE [nan |-> FALSE, num |-> SumSeq(xs), den |-> Len(xs)]

\* Deviation: the population standard deviation (denominator N), which is
\* defined for a single value.
std2_population(col) ==
    LET xs == Numbers(col)
        n  == Len(xs)
        S  == SumSeq(xs)
        Q  == SumSeq([i \in 1..n |-> xs[i] * xs[i]])
    IN  IF n = 0 THEN NaNFrac
        ELSE [nan |-> FALSE, num |-> n * Q - S * S, den |-> n * n]

std2(col) ==
    LET xs == Numbers(col)
        n  == Len(xs)
        S  == SumSeq(xs)
        Q  == SumSeq([i \in 1..n |-> xs[i] * xs[i]])
    IN  IF n <= 1 THEN NaNFrac
        ELSE [nan |-> FALSE, num |-> n * Q - S * S, den |-> n * (n - 1)]

\* mu + k * sigma, NaN as soon as mu or sigma is
UnboundThr == [tag |-> "unbound", nan |-> FALSE, mu |-> NaNFrac, k |-> 0, sigma2 |-> NaNFrac]
NoneThr == [tag |-> "None", nan |-> FALSE, mu |-> NaNFrac, k |-> 0, sigma2 |-> NaNFrac]
Threshold(mu, k, sigma2) ==
    [tag |-> "float", nan |-> mu.nan \/ sigma2.nan, mu |-> mu, k |-> k, sigma2 |-> sigma2]

\* Deviation: x >= thr.
Gt_nonstrict(x, thr) ==
    IF x = NaN \/ thr.nan THEN FALSE
    ELSE LET a == x[1] * thr.mu.den - thr.mu.num
             L == a * a * thr.sigma2.den
             R == thr.k * thr.k * thr.sigma2.num * thr.mu.den * thr.mu.den
         IN  IF thr.k >= 0 \/ thr.sigma2.num = 0
             THEN a >= 0 /\ L >= R
             ELSE a >= 0 \/ L <= R

\* x > thr for a cell x; a comparison with NaN on either side is false
Gt(x, thr) ==
    IF x = NaN \/ thr.nan THEN FALSE
    ELSE LET a == x[1] * thr.mu.den - thr.mu.num
             L == a * a * thr.sigma2.den
             R == thr.k * thr.k * thr.sigma2.num * thr.mu.den * thr.mu.den
         IN  IF thr.k >= 0 \/ thr.sigma2.num = 0
             THEN a > 0 /\ L > R
             ELSE a >= 0 \/ L < R

\* x >= b and x <= b for a cell x and a float b
Ge(x, b) == IF x = NaN \/ b = NaN THEN FALSE ELSE x[1] >= b[1]
Le(x, b) == IF x = NaN \/ b = NaN THEN FALSE ELSE x[1] <= b[1]

(***************************************************************************)
(* The sections of the script as functions of what they read.              *)
(***************************************************************************)
\* leer_csv: the table of an existing file.  A file that does not decode as
\* UTF-8 is read again as Latin-1; either way the result is the file's table.
leer_csv(file) == file.table

\* Deviation: the PFD threshold taken from the candidate's own statistics.
ThrPfd_fromData(base, pfdb, k) ==
    Threshold(mean(Column(df_data, pfd_data)), k, std2(Column(df_data, pfd_data)))

\* CALCULO DE UMBRALES
ThrPfd(base, pfdb, k) ==
    Threshold(mean(Column(base, pfdb)), k, std2(Column(base, pfdb)))

\* Deviation: the power threshold computed as soon as the baseline has a
\* power column.
ThrPower_baseOnly(base, powb, powd, k) ==
    IF powb # None
    THEN Threshold(mean(Column(base, powb)), k, std2(Column(base, powb)))
    ELSE NoneThr

ThrPower(base, powb, powd, k) ==
    IF powb # None /\ powd # None
    THEN Threshold(mean(Column(base, powb)), k, std2(Column(base, powb)))
    ELSE NoneThr

\* Deviation: the upper bound excluded.
BandMask_openMax(data, freq, fmin, fmax) ==
    IF freq # None /\ fmin # None /\ fmax # None
    THEN [i \in 1..Len(data.rows) |->
            Ge(Column(data, freq)[i], fmin) /\ ~Ge(Column(data, freq)[i], fmax)]
    ELSE [i \in 1..Len(data.rows) |-> TRUE]

\* FILTRO DE BANDA
BandMask(data, freq, fmin, fmax) ==
    IF freq # None /\ fmin # None /\ fmax # None
    THEN [i \in 1..Len(data.rows) |->
            Ge(Column(data, freq)[i], fmin) /\ Le(Column(data, freq)[i], fmax)]
    ELSE [i \in 1..Len(data.rows) |-> TRUE]

\* DETECCION INSTANTANEA
InstantMask(data, pfdd, powd, thrp, thrw, band) ==
    [i \in 1..Len(data.rows) |->
        /\ Gt(Column(data, pfdd)[i], thrp)
        /\ band[i]
        /\ (thrw.tag = "None" \/ Gt(Column(data, powd)[i], thrw))]

\* HISTERESIS
\* Deviation: an expanding sum, the number of true rows so far.
Rolling_expanding(mask, w) ==
    [i \in 1..Len(mask) |->
        IF i < w THEN NaN
        ELSE <<Cardinality({j \in 1..i : mask[j]})>>]

\* Series.rolling(w, min_periods=w).sum() over the mask as 0/1: NaN until the
\* window is full, then the number of true rows among the last w
Rolling(mask, w) ==
    [i \in 1..Len(mask) |->
        IF i < w THEN NaN
        ELSE <<Cardinality({j \in (i - w + 1)..i : mask[j]})>>]

\* Deviation: the window sum compared with 2 instead of n_consec.
Hits_fixed(mask, n) == [i \in 1..Len(mask) |-> Ge(Rolling(mask, n)[i], <<2>>)]

Hits(mask, n) == [i \in 1..Len(mask) |-> Ge(Rolling(mask, n)[i], <<n>>)]

any(m) == \E i \in 1..Len(m) : m[i]

\* Deviation: all() instead of any() without hysteresis.
Hysteresis_all(mask, n) ==
    IF n > 1 THEN any(Hits(mask, n)) ELSE \A i \in 1..Len(mask) : mask[i]

Hysteresis(mask, n) == IF n > 1 THEN any(Hits(mask, n)) ELSE any(mask)

(***************************************************************************)
(* The run.                                                                *)
(***************************************************************************)
UnboundDF == [columns |-> <<>>, rows |-> <<>>]

Init ==
    /\ pc = "leer_baseline"
    /\ args \in ArgsValues
    /\ exists \in [{"baseline", "datafile"} -> BOOLEAN]
    /\ df_base = UnboundDF /\ df_data = UnboundDF
    /\ pfd_base = None /\ pfd_data = None /\ pow_base = None /\ pow_data = None
    /\ freq_data = None
    /\ thr_pfd = UnboundThr /\ thr_power = UnboundThr
    /\ band_mask = <<>> /\ instant_mask = <<>>
    /\ dron_detectado = Unbound
    /\ opened = <<>> /\ stdout = <<>> /\ exit_code = <<>>

\* Deviation: a missing baseline does not stop the run.
LeerBaseline_noexit ==
    /\ pc = "leer_baseline"
    /\ \E f \in BaselineFiles :
        /\ f.exists = exists["baseline"]
        /\ opened' = IF f.exists THEN Append(opened, "baseline") ELSE opened
        /\ df_base' = leer_csv(f)
        /\ pc' = "leer_datafile"
    /\ UNCHANGED <<args, df_data, pfd_base, pfd_data, pow_base, pow_data, freq_data,
                   thr_pfd, thr_power, band_mask, instant_mask, dron_detectado, exists,
                   stdout, exit_code>>

\* df_base = leer_csv(args.baseline)
LeerBaseline ==
    /\ pc = "leer_baseline"
    /\ \E f \in BaselineFiles :
        /\ f.exists = exists["baseline"]
        /\ \/ /\ ~f.exists
              /\ stdout' = Append(stdout, "ERROR: Archivo inexistente")
              /\ exit_code' = <<1>>
              /\ pc' = "exit"
              /\ UNCHANGED <<df_base, opened>>
           \/ /\ f.exists
              /\ opened' = Append(opened, "baseline")
              /\ df_base' = leer_csv(f)
              /\ pc' = "leer_datafile"
              /\ UNCHANGED <<stdout, exit_code>>
    /\ UNCHANGED <<args, df_data, pfd_base, pfd_data, pow_base, pow_data, freq_data,
                   thr_pfd, thr_power, band_mask, instant_mask, dron_detectado, exists>>

\* df_data = leer_csv(args.datafile)
LeerDatafile ==
    /\ pc = "leer_datafile"
    /\ \E f \in DataFiles :
        /\ f.exists = exists["datafile"]
        /\ \/ /\ ~f.exists
              /\ stdout' = Append(stdout, "ERROR: Archivo inexistente")
              /\ exit_code' = <<1>>
              /\ pc' = "exit"
              /\ UNCHANGED <<df_data, opened>>
           \/ /\ f.exists
              /\ opened' = Append(opened, "datafile")
              /\ df_data' = leer_csv(f)
              /\ pc' = "buscar_columnas"
              /\ UNCHANGED <<stdout, exit_code>>
    /\ UNCHANGED <<args, df_base, pfd_base, pfd_data, pow_base, pow_data, freq_data,
                   thr_pfd, thr_power, band_mask, instant_mask, dron_detectado, exists>>

\* the five buscar_col calls and the check of the mandatory PFD column
BuscarColumnas ==
    /\ pc = "buscar_columnas"
    /\ pfd_base' = buscar_col(df_base, KeyPFD)
    /\ pfd_data' = buscar_col(df_data, KeyPFD)
    /\ pow_base' = buscar_col(df_base, KeyPower)
    /\ pow_data' = buscar_col(df_data, KeyPower)
    /\ freq_data' = buscar_col(df_data, KeyFreq)
    /\ \/ /\ (pfd_base' = None \/ pfd_data' = None)
          /\ stdout' = Append(stdout, "ERROR: No se encontro 'Power Flux Density'")
          /\ exit_code' = <<1>>
          /\ pc' = "exit"
       \/ /\ ~(pfd_base' = None \/ pfd_data' = None)
          /\ pc' = "umbrales"
          /\ UNCHANGED <<stdout, exit_code>>
    /\ UNCHANGED <<args, df_base, df_data, thr_pfd, thr_power, band_mask, instant_mask,
                   dron_detectado, opened, exists>>

Umbrales ==
    /\ pc = "umbrales"
    /\ thr_pfd' = ThrPfd(df_base, pfd_base, args.ksigma)
    /\ thr_power' = ThrPower(df_base, pow_base, pow_data, args.ksigma)
    /\ pc' = "filtro_banda"
    /\ UNCHANGED <<args, df_base, df_data, pfd_base, pfd_data, pow_base, pow_data,
                   freq_data, band_mask, instant_mask, dron_detectado, opened, stdout,
                   exit_code, exists>>

FiltroBanda ==
    /\ pc = "filtro_banda"
    /\ band_mask' = BandMask(df_data, freq_data, args.freq_min, args.freq_max)
    /\ pc' = "deteccion"
    /\ UNCHANGED <<args, df_base, df_data, pfd_base, pfd_data, pow_base, pow_data,
                   freq_data, thr_pfd, thr_power, instant_mask, dron_detectado, opened,
                   stdout, exit_code, exists>>

DeteccionInstantanea ==
    /\ pc = "deteccion"
    /\ instant_mask' = InstantMask(df_data, pfd_data, pow_data, thr_pfd, thr_power, band_mask)
    /\ pc' = "histeresis"
    /\ UNCHANGED <<args, df_base, df_data, pfd_base, pfd_data, pow_base, pow_data,
                   freq_data, thr_pfd, thr_power, band_mask, dron_detectado, opened,
                   stdout, exit_code, exists>>

Histeresis ==
    /\ pc = "histeresis"
    /\ dron_detectado' = <<Hysteresis(instant_mask, args.n_consec)>>
    /\ pc' = "salidas"
    /\ UNCHANGED <<args, df_base, df_data, pfd_base, pfd_data, pow_base, pow_data,
                   freq_data, thr_pfd, thr_power, band_mask, instant_mask, opened,
                   stdout, exit_code, exists>>

\* the verdict line; the --stats report block is console formatting only
Salidas ==
    /\ pc = "salidas"
    /\ stdout' = stdout \o <<"===== RESULTADO =====",
                             IF dron_detectado[1] THEN "Dron detectado" ELSE "Sin dron">>
    /\ exit_code' = <<0>>
    /\ pc' = "done"
    /\ UNCHANGED <<args, df_base, df_data, pfd_base, pfd_data, pow_base, pow_data,
                   freq_data, thr_pfd, thr_power, band_mask, instant_mask,
                   dron_detectado, opened, exists>>

Next ==
    \/ LeerBaseline
    \/ LeerDatafile
    \/ BuscarColumnas
    \/ Umbrales
    \/ FiltroBanda
    \/ DeteccionInstantanea
    \/ Histeresis
    \/ Salidas

Spec == Init /\ [][Next]_vars

(***************************************************************************)
(* The hysteresis section on its own: it is a function of the              *)
(* instantaneous mask and n_consec, run here on every mask of up to        *)
(* MaxMaskLen rows and every n_consec from -1 to MaxNConsec.               *)
(***************************************************************************)
InitHyst ==
    /\ pc = "histeresis"
    /\ args \in [ksigma : {0}, freq_min : {None}, freq_max : {None},
                 n_consec : (-1)..MaxNConsec]
    /\ instant_mask \in SeqsUpTo(BOOLEAN, MaxMaskLen)
    /\ band_mask = [i \in 1..Len(instant_mask) |-> TRUE]
    /\ exists = [f \in {"baseline", "datafile"} |-> TRUE]
    /\ df_base = UnboundDF /\ df_data = UnboundDF
    /\ pfd_base = None /\ pfd_data = None /\ pow_base = None /\ pow_data = None
    /\ freq_data = None
    /\ thr_pfd = UnboundThr /\ thr_power = NoneThr
    /\ dron_detectado = Unbound
    /\ opened = <<"baseline", "datafile">> /\ stdout = <<>> /\ exit_code = <<>>

NextHyst ==
    \/ Histeresis
    \/ Salidas

SpecHyst == InitHyst /\ [][NextHyst]_vars

(***************************************************************************)
(* What the properties below are stated in.                                *)
(***************************************************************************)
\* the verdict has been assigned
Decided == pc \in {"salidas", "done"}
\* the instantaneous mask has been assigned
Masked == pc \in {"histeresis", "salidas", "done"}
\* the band mask has been assigned
Banded == pc \in {"deteccion", "histeresis", "salidas", "done"}
\* the thresholds have been assigned
Calibrated == pc \in {"filtro_banda", "deteccion", "histeresis", "salidas", "done"}

\* the keywords each column name contains, whatever the case of either
KeywordsIn == [name \in ColumnNames |->
    { key \in {KeyPFD, KeyPower, KeyFreq} : Contains(lower(key), lower(name)) }]
Matches(name, key) == key \in KeywordsIn[name]

\* mask holds n consecutive true rows
HasRun(mask, n) ==
    \E i \in 1..(Len(mask) - n + 1) : \A j \in i..(i + n - 1) : mask[j]

\* the numbers of a baseline column, missing cells left out
Sample(col) == { i \in 1..Len(col) : col[i] # NaN }
SampleSum(col) == SumSeq([i \in 1..Len(col) |-> IF col[i] = NaN THEN 0 ELSE col[i][1]])
SampleSquares(col) ==
    SumSeq([i \in 1..Len(col) |-> IF col[i] = NaN THEN 0 ELSE col[i][1] * col[i][1]])

\* x > mean(col) + k * stddev(col), N-1 denominator, for k >= 0 and a cell x.
\* With n values of sum S and sum of squares Q this is
\*   n*x - S > 0  and  (n*x - S)^2 * (n - 1) > k^2 * n * (n*Q - S^2);
\* it is false when x is missing or the sample has fewer than two values.
Above(x, col, k) ==
    LET n == Cardinality(Sample(col))
        S == SampleSum(col)
        Q == SampleSquares(col)
    IN  /\ x # NaN
        /\ n >= 2
        /\ n * x[1] - S > 0
        /\ (n * x[1] - S) * (n * x[1] - S) * (n - 1) > k * k * n * (n * Q - S * S)

\* the band filter applies
BandActive == freq_data # None /\ args.freq_min # None /\ args.freq_max # None

\* row i of the candidate lies in the band
InBand(i) ==
    LET f == Column(df_data, freq_data)[i]
    IN  f # NaN /\ args.freq_min[1] <= f[1] /\ f[1] <= args.freq_max[1]

\* the power criterion applies
PowerEnabled == pow_base # None /\ pow_data # None

PfdCell(i) == Column(df_data, pfd_data)[i]
PowerCell(i) == Column(df_data, pow_data)[i]
BasePfd == Column(df_base, pfd_base)
BasePower == Column(df_base, pow_base)

\* C1: with n_consec > 1 the verdict is true exactly when the instantaneous
\* mask holds a run of n_consec consecutive true rows; with n_consec = 3,
\* [T,T,F,T,T,T] is a detection and [T,T,F,T,T,F] is not.
C1_VerdictIffRun ==
    (Decided /\ args.n_consec > 1) =>
        (dron_detectado[1] <=> HasRun(instant_mask, args.n_consec))

C1_Witness ==
    /\ pc = "done"
    /\ args.n_consec = 3
    /\ instant_mask = <<TRUE, TRUE, FALSE, TRUE, TRUE, TRUE>>
    /\ dron_detectado = <<TRUE>>

\* C2: a candidate row is in the instantaneous mask exactly when its PFD is
\* strictly above the PFD threshold, it is in band, and the power criterion is
\* off or its power is strictly above the power threshold; a value equal to
\* its threshold does not qualify.
C2_InstantMask ==
    Masked =>
        /\ Len(instant_mask) = Len(df_data.rows)
        /\ \A i \in 1..Len(df_data.rows) :
            instant_mask[i] <=>
                /\ Above(PfdCell(i), BasePfd, args.ksigma)
                /\ (~BandActive \/ InBand(i))
                /\ (~PowerEnabled \/ Above(PowerCell(i), BasePower, args.ksigma))

\* a row whose PFD equals the threshold (baseline 2, 2: mean 2, sigma 0) and
\* that passes the band filter is left out of the mask
C2_Witness ==
    /\ pc = "done"
    /\ Len(df_data.rows) = 1
    /\ BasePfd = << <<2>>, <<2>> >>
    /\ PfdCell(1) = <<2>>
    /\ band_mask[1]
    /\ ~PowerEnabled
    /\ ~instant_mask[1]

\* C3: with n_consec <= 1, zero and negative values included, the verdict is
\* the OR of the instantaneous mask, so it is false for an empty table.
C3_VerdictIsOr ==
    (Decided /\ args.n_consec <= 1) =>
        /\ dron_detectado[1] <=> (\E i \in 1..Len(instant_mask) : instant_mask[i])
        /\ (instant_mask = <<>> => dron_detectado = <<FALSE>>)

C3_Witness ==
    /\ pc = "done"
    /\ args.n_consec = 0
    /\ instant_mask = <<FALSE, TRUE, FALSE>>
    /\ dron_detectado = <<TRUE>>

\* C4: the band filter restricts rows only when the candidate has a frequency
\* column and both bounds are set; then a row passes exactly when
\* freq_min <= frequency <= freq_max, and a row out of band is never in the
\* instantaneous mask.  Otherwise every row passes.
C4_BandFilter ==
    /\ Banded =>
        /\ Len(band_mask) = Len(df_data.rows)
        /\ \A i \in 1..Len(df_data.rows) :
            band_mask[i] <=> (~BandActive \/ InBand(i))
    /\ Masked =>
        \A i \in 1..Len(df_data.rows) :
            (BandActive /\ ~InBand(i)) => ~instant_mask[i]

\* a row above the PFD threshold, out of band, left out of the mask
C4_Witness ==
    /\ pc = "done"
    /\ BandActive
    /\ Len(df_data.rows) = 1
    /\ Column(df_data, freq_data)[1] = <<3>>
    /\ Above(PfdCell(1), BasePfd, args.ksigma)
    /\ ~band_mask[1]
    /\ ~instant_mask[1]

\* the table with its Total Spectrum Power columns taken out
KeptColumns(df) == { j \in 1..Len(df.columns) : ~Matches(df.columns[j], KeyPower) }
RECURSIVE Pick(_, _, _)
Pick(row, keep, j) ==
    IF j > Len(row) THEN <<>>
    ELSE (IF j \in keep THEN <<row[j]>> ELSE <<>>) \o Pick(row, keep, j + 1)
StripPower(df) ==
    [columns |-> Pick(df.columns, KeptColumns(df), 1),
     rows |-> [r \in 1..Len(df.rows) |-> Pick(df.rows[r], KeptColumns(df), 1)]]

\* the verdict of a whole run on two tables
RunVerdict(base, data, a) ==
    LET pfdb == buscar_col(base, KeyPFD)
        pfdd == buscar_col(data, KeyPFD)
        powb == buscar_col(base, KeyPower)
        powd == buscar_col(data, KeyPower)
        freq == buscar_col(data, KeyFreq)
    IN  Hysteresis(
            InstantMask(data, pfdd, powd,
                        ThrPfd(base, pfdb, a.ksigma),
                        ThrPower(base, powb, powd, a.ksigma),
                        BandMask(data, freq, a.freq_min, a.freq_max)),
            a.n_consec)

\* the table has a column for the keyword
HasColumn(df, key) == \E j \in 1..Len(df.columns) : Matches(df.columns[j], key)
PowerInBoth == HasColumn(df_base, KeyPower) /\ HasColumn(df_data, KeyPower)

\* C5: the power criterion applies exactly when both tables have a power
\* column.  When either lacks it there is no power threshold, the mask is the
\* PFD comparison and the band filter alone, and the verdict is the one the
\* same tables give with their power columns taken out.
C5_PowerNeedsBothTables ==
    /\ Calibrated =>
        /\ thr_power.tag = "float" <=> PowerInBoth
        /\ thr_power.tag = "None" <=> ~PowerInBoth
    /\ (Masked /\ ~PowerInBoth) =>
        \A i \in 1..Len(df_data.rows) :
            instant_mask[i] <=>
                (Above(PfdCell(i), BasePfd, args.ksigma) /\ (~BandActive \/ InBand(i)))
    /\ (Decided /\ ~PowerInBoth) =>
        dron_detectado[1] = RunVerdict(StripPower(df_base), StripPower(df_data), args)

\* power in the baseline only, and a detection on PFD alone
C5_Witness ==
    /\ pc = "done"
    /\ HasColumn(df_base, KeyPower)
    /\ ~HasColumn(df_data, KeyPower)
    /\ thr_power = NoneThr
    /\ dron_detectado = <<TRUE>>

VerdictPrinted == \E i \in 1..Len(stdout) : stdout[i] \in {"Dron detectado", "Sin dron"}
NothingDetected ==
    /\ thr_pfd = UnboundThr /\ thr_power = UnboundThr
    /\ band_mask = <<>> /\ instant_mask = <<>>
    /\ dron_detectado = Unbound
    /\ ~VerdictPrinted
BothRead == opened = <<"baseline", "datafile">>

\* C6: a fatal configuration error comes before detection.  With the baseline
\* file missing the run stops at the first read and the candidate is never
\* read; with the candidate missing, or no PFD column in one of the tables,
\* it stops before the thresholds.  In each case no threshold is computed and
\* no verdict is produced, and a run that exits with code 1 has computed none.
C6_FatalBeforeDetection ==
    /\ ~exists["baseline"] =>
        /\ pc \in {"leer_baseline", "exit"}
        /\ opened = <<>> /\ df_data = UnboundDF
        /\ NothingDetected
    /\ ~exists["datafile"] =>
        /\ pc \in {"leer_baseline", "leer_datafile", "exit"}
        /\ NothingDetected
    /\ (BothRead /\ ~(HasColumn(df_base, KeyPFD) /\ HasColumn(df_data, KeyPFD))) =>
        /\ pc \in {"buscar_columnas", "exit"}
        /\ NothingDetected
    /\ (pc = "exit" \/ exit_code = <<1>>) =>
        /\ pc = "exit" /\ exit_code = <<1>>
        /\ NothingDetected
    /\ ~NothingDetected =>
        /\ BothRead /\ exists["baseline"] /\ exists["datafile"]
        /\ HasColumn(df_base, KeyPFD) /\ HasColumn(df_data, KeyPFD)

\* the baseline is missing, the candidate exists and was not read
C6_Witness ==
    /\ pc = "exit"
    /\ ~exists["baseline"] /\ exists["datafile"]
    /\ opened = <<>>
    /\ exit_code = <<1>>

\* mean + k * sigma of a column, from its values alone
BaselineThreshold(col, k) ==
    LET n == Cardinality(Sample(col))
        S == SampleSum(col)
        Q == SampleSquares(col)
    IN  [tag |-> "float",
         nan |-> n < 2,
         mu |-> IF n = 0 THEN NaNFrac ELSE [nan |-> FALSE, num |-> S, den |-> n],
         k |-> k,
         sigma2 |-> IF n < 2 THEN NaNFrac
                    ELSE [nan |-> FALSE, num |-> n * Q - S * S, den |-> n * (n - 1)]]

\* C7: the thresholds come from the baseline alone: each is the mean plus k
\* standard deviations of its baseline column, whatever the candidate's rows.
C7_ThresholdsFromBaseline ==
    Calibrated =>
        /\ thr_pfd = BaselineThreshold(BasePfd, args.ksigma)
        /\ thr_power = IF PowerInBoth THEN BaselineThreshold(BasePower, args.ksigma)
                       ELSE NoneThr

\* a candidate whose values are all above the baseline's, thresholds unmoved
C7_Witness ==
    /\ pc = "done"
    /\ BasePfd = << <<2>>, <<2>> >>
    /\ PowerInBoth /\ BasePower = << <<2>>, <<2>> >>
    /\ Len(df_data.rows) = 1 /\ PfdCell(1) = <<3>> /\ PowerCell(1) = <<3>>
    /\ thr_pfd.mu = [nan |-> FALSE, num |-> 4, den |-> 2]
    /\ thr_power.mu = [nan |-> FALSE, num |-> 4, den |-> 2]
    /\ thr_pfd.sigma2.num = 0

\* the baseline column has too few values for a sample standard deviation
Undefined(col) == Cardinality(Sample(col)) < 2
NoThreshold == Undefined(BasePfd) \/ (PowerInBoth /\ Undefined(BasePower))

\* C8: a baseline column with fewer than two values gives a NaN threshold;
\* every comparison against it is false, so the mask is all false and the
\* verdict is false for every candidate and every n_consec.  A missing
\* candidate value makes its row's comparison false.
C8_UndefinedThreshold ==
    /\ (Calibrated /\ Undefined(BasePfd)) => thr_pfd.nan
    /\ (Calibrated /\ PowerInBoth /\ Undefined(BasePower)) => thr_power.nan
    /\ (Masked /\ NoThreshold) => \A i \in 1..Len(instant_mask) : ~instant_mask[i]
    /\ (Decided /\ NoThreshold) => dron_detectado = <<FALSE>>
    /\ Masked =>
        \A i \in 1..Len(df_data.rows) :
            (PfdCell(i) = NaN \/ (PowerInBoth /\ PowerCell(i) = NaN)) => ~instant_mask[i]

\* a baseline of two rows with one power value missing: the PFD threshold is
\* defined and exceeded, the power threshold is NaN, and nothing is detected
C8_Witness ==
    /\ pc = "done"
    /\ BasePfd = << <<2>>, <<2>> >>
    /\ PowerInBoth /\ BasePower = << <<2>>, NaN >>
    /\ Len(df_data.rows) = 1 /\ PfdCell(1) = <<3>> /\ PowerCell(1) = <<3>>
    /\ ~thr_pfd.nan /\ thr_power.nan
    /\ instant_mask = <<FALSE>>
    /\ dron_detectado = <<FALSE>>

\* result is the first column of the table whose name contains the keyword,
\* None when there is none
FirstMatch(df, key, result) ==
    IF HasColumn(df, key)
    THEN \E j \in 1..Len(df.columns) :
            /\ result = df.columns[j]
            /\ Matches(df.columns[j], key)
            /\ \A l \in 1..(j - 1) : ~Matches(df.columns[l], key)
    ELSE result = None

Resolved == pc \notin {"leer_baseline", "leer_datafile", "buscar_columnas"} /\ BothRead

\* C9: the resolver returns the first column, in declared order, whose name
\* contains the keyword whatever the case, and None when no name contains it.
C9_FirstMatchWins ==
    Resolved =>
        /\ FirstMatch(df_base, KeyPFD, pfd_base)
        /\ FirstMatch(df_data, KeyPFD, pfd_data)
        /\ FirstMatch(df_base, KeyPower, pow_base)
        /\ FirstMatch(df_data, KeyPower, pow_data)
        /\ FirstMatch(df_data, KeyFreq, freq_data)

\* two columns of the candidate match, in another case than the keyword's:
\* the first is taken; the power column is absent
C9_Witness ==
    /\ Resolved
    /\ df_data.columns = <<ColPFDPeak, ColPFD>>
    /\ pfd_data = ColPFDPeak
    /\ pow_data = None
    /\ pc = "done"

\* C10: raising n_consec never turns a non-detection into a detection: a
\* verdict that is true for n_consec is true for every smaller value, and it
\* is false when the candidate has fewer rows than n_consec.
C10_MonotoneInNConsec ==
    Decided =>
        /\ dron_detectado[1] =>
            \A m \in (-1)..MaxNConsec :
                m <= args.n_consec => Hysteresis(instant_mask, m)
        /\ Len(instant_mask) < args.n_consec => dron_detectado = <<FALSE>>

\* a detection with n_consec = 3 on a mask that holds a run of exactly 3
C10_Witness ==
    /\ pc = "done"
    /\ args.n_consec = 3
    /\ instant_mask = <<FALSE, TRUE, TRUE, TRUE, FALSE>>
    /\ dron_detectado = <<TRUE>>

====
